---- MODULE Spec2Model ----
(***************************************************************************)
(* A model of the MCP weather tutorial: the command-line chat client       *)
(* (MCPClient: connectToServer, chatLoop, processQuery, cleanup, main) and *)
(* the weather tool server (makeNWSRequest and the seven server.tool       *)
(* handlers).  Text is modelled by TLA+ strings, joined and sliced the way *)
(* the JavaScript does it.                                                 *)
(***************************************************************************)
EXTENDS Integers, Sequences, FiniteSets, TLC

VARIABLES
    pc,            \* position of the client program (main / connectToServer / chatLoop / processQuery)
    transport,     \* MCPClient.transport: FALSE is null, TRUE a StdioClientTransport
    tools,         \* MCPClient.tools
    messages,      \* processQuery: const messages: MessageParam[]
    response,      \* processQuery: let response (its content blocks)
    toolResults,   \* processQuery: const toolResults = []
    idx,           \* processQuery: position of the for...of over response.content
    answer,        \* what chatLoop printed for the last query ("\n" + response)
    outcome,       \* how the last processQuery call ended: "none", "answered", "error"
    rounds,        \* iterations of the while loop begun in this processQuery call
    stubN,         \* the model API stub: no tool_use once this many tool rounds were answered
    hist,          \* observation of the run: what happened so far
    srv            \* the tool server: the request being handled and its progress

clientVars == <<pc, transport, tools, messages, response, toolResults, idx,
                answer, outcome, rounds, stubN, hist>>
vars == <<pc, transport, tools, messages, response, toolResults, idx,
          answer, outcome, rounds, stubN, hist, srv>>

(***************************************************************************)
(* Bounds of the model.                                                    *)
(***************************************************************************)
MaxRounds == 2

(***************************************************************************)
(* JavaScript string and array helpers.                                    *)
(***************************************************************************)
\* String.prototype.endsWith
EndsWith(s, suffix) ==
    /\ Len(s) >= Len(suffix)
    /\ SubSeq(s, Len(s) - Len(suffix) + 1, Len(s)) = suffix

\* one character of String.prototype.toLowerCase, over the letters the inputs use
LowerChar(c) ==
    CASE c = "Q" -> "q"
      [] c = "U" -> "u"
      [] c = "I" -> "i"
      [] c = "T" -> "t"
      [] c = "H" -> "h"
      [] OTHER -> c

RECURSIVE ToLowerCase(_)
ToLowerCase(s) ==
    IF Len(s) = 0 THEN ""
    ELSE LowerChar(SubSeq(s, 1, 1)) \o ToLowerCase(SubSeq(s, 2, Len(s)))

\* Array.prototype.join over an array of strings (halving keeps the evaluation shallow)
RECURSIVE Join(_, _)
Join(strs, sep) ==
    IF Len(strs) = 0 THEN ""
    ELSE IF Len(strs) = 1 THEN strs[1]
    ELSE LET half == Len(strs) \div 2
         IN  Join(SubSeq(strs, 1, half), sep) \o sep
             \o Join(SubSeq(strs, half + 1, Len(strs)), sep)

(***************************************************************************)
(* Content blocks, messages and tool descriptors.                          *)
(***************************************************************************)
TextBlock(t) == [type |-> "text", text |-> t, id |-> "", name |-> ""]
ToolUseBlock(id, name) == [type |-> "tool_use", text |-> "", id |-> id, name |-> name]
ToolResultBlock(id, content) ==
    [type |-> "tool_result", tool_use_id |-> id, content |-> content]

\* a MessageParam: content is either a string (text) or an array (blocks)
StringMessage(role, text) == [role |-> role, isArray |-> FALSE, text |-> text, blocks |-> <<>>]
BlockMessage(role, blocks) == [role |-> role, isArray |-> TRUE, text |-> "", blocks |-> blocks]

IsToolUse(content) == content.type = "tool_use"
IsText(content) == content.type = "text"

\* what mcp.listTools() can answer: the server's declared tools
ServerToolLists ==
    { <<>>,
      << [name |-> "get-alerts", description |-> "Get weather alerts for a state",
          inputSchema |-> "state"],
         [name |-> "get-forecast", description |-> "Get weather forecast for a location",
          inputSchema |-> "latitude,longitude"] >> }

\* the tools.map(...) of connectToServer
ToAnthropicTool(tool) ==
    [name |-> tool.name, description |-> tool.description, input_schema |-> tool.inputSchema]

\* process.argv[2] as typed by the user; "" stands for a missing argument
Locators == {"", "server.js", "weather.py", "server.ts", "serverjs", "server.js.bak", "server.JS"}

\* lines the user can type at the prompt
Lines == {"quit", "QUIT", "Quit", "quit it", "hi"}

\* the call identifier the model API gives the i-th block of its r-th response
CallId(r, i) == "toolu_" \o ToString(r) \o "_" \o ToString(i)

\* responses of the model API that request no tool
FinalResponses ==
    { <<>>,
      <<TextBlock("sunny")>>,
      <<TextBlock("sunny"), TextBlock("windy")>> }

\* responses of the model API that request tools, for the r-th submission
ToolResponses(r) ==
    { <<ToolUseBlock(CallId(r, 1), "get-alerts")>>,
      <<TextBlock("checking"), ToolUseBlock(CallId(r, 2), "get-alerts"),
        TextBlock("windy"), ToolUseBlock(CallId(r, 4), "get-forecast")>> }

\* what mcp.callTool() can resolve to: content is an array of items or not an array
TextItem(t) == [isObject |-> TRUE, hasText |-> TRUE, text |-> t]
OpaqueItem == [isObject |-> TRUE, hasText |-> FALSE, text |-> ""]
CallToolResults ==
    { [isArray |-> TRUE, items |-> <<TextItem("No active alerts for CA")>>],
      [isArray |-> TRUE, items |-> <<TextItem("line1"), OpaqueItem>>],
      [isArray |-> FALSE, items |-> <<>>] }

\* what mcp.callTool() can reject with
CallToolErrors == { [name |-> "McpError", message |-> "Connection closed"] }

\* String(x) of an item without text, of a non-array content, of an Error
StringOfItem(item) == "[object Object]"
StringOfContent(result) == "undefined"
StringOfError(error) == error.name \o ": " \o error.message

(***************************************************************************)
(* The client: initial state.                                              *)
(***************************************************************************)
NoHist ==
    [locator |-> "", connectFailed |-> FALSE, listed |-> <<>>, chatEntered |-> FALSE,
     submitted |-> FALSE, line |-> "", thrown |-> {}, dispatched |-> <<>>,
     errorFrom |-> "none"]

ClientInit ==
    /\ pc = "main"
    /\ transport = FALSE
    /\ tools = <<>>
    /\ messages = <<>>
    /\ response = <<>>
    /\ toolResults = <<>>
    /\ idx = 0
    /\ answer = ""
    /\ outcome = "none"
    /\ rounds = 0
    /\ stubN = 0
    /\ hist = NoHist

(***************************************************************************)
(* main and connectToServer.                                               *)
(***************************************************************************)
\* connectToServer: isJs || isPy
SupportedScript(serverScriptPath) ==
    EndsWith(serverScriptPath, ".js") \/ EndsWith(serverScriptPath, ".py")

\* a connectToServer whose catch logs the error and does not rethrow it
ConnectCatchSwallows(h) ==
    /\ pc' = "prompt"
    /\ hist' = [h EXCEPT !.chatEntered = TRUE]

\* connectToServer's catch logs and rethrows; main's try has no catch, so the
\* error skips chatLoop and runs the finally block
ConnectCatch(h) ==
    /\ pc' = "cleanup"
    /\ hist' = h

\* main: the usage check, then connectToServer up to its first await
Main(locator) ==
    /\ pc = "main"
    /\ IF locator = ""
       THEN /\ pc' = "exit"
            /\ UNCHANGED <<transport, hist>>
       ELSE IF ~SupportedScript(locator)
       THEN /\ ConnectCatch([hist EXCEPT !.locator = locator, !.connectFailed = TRUE])
            /\ UNCHANGED transport
       ELSE /\ transport' = TRUE
            /\ pc' = "connect"
            /\ hist' = [hist EXCEPT !.locator = locator]
    /\ UNCHANGED <<tools, messages, response, toolResults, idx, answer, outcome,
                   rounds, stubN, srv>>

\* await this.mcp.connect(this.transport): resolves or rejects
ConnectTransport ==
    /\ pc = "connect"
    /\ \/ /\ pc' = "listTools"
          /\ UNCHANGED hist
       \/ ConnectCatch([hist EXCEPT !.connectFailed = TRUE])
    /\ UNCHANGED <<transport, tools, messages, response, toolResults, idx, answer,
                   outcome, rounds, stubN, srv>>

\* await this.mcp.listTools(): resolves with the server's tools or rejects;
\* on success connectToServer returns and main enters chatLoop
ListTools ==
    /\ pc = "listTools"
    /\ \/ \E listed \in ServerToolLists :
             /\ tools' = [i \in 1..Len(listed) |-> ToAnthropicTool(listed[i])]
             /\ pc' = "prompt"
             /\ hist' = [hist EXCEPT !.listed = listed, !.chatEntered = TRUE]
       \/ /\ ConnectCatch([hist EXCEPT !.connectFailed = TRUE])
          /\ UNCHANGED tools
    /\ UNCHANGED <<transport, messages, response, toolResults, idx, answer,
                   outcome, rounds, stubN, srv>>

\* cleanup and process.exit(0) in main's finally block
Cleanup ==
    /\ pc = "cleanup"
    /\ pc' = "exit"
    /\ UNCHANGED <<transport, tools, messages, response, toolResults, idx, answer,
                   outcome, rounds, stubN, hist, srv>>

(***************************************************************************)
(* chatLoop.                                                               *)
(***************************************************************************)
\* a chatLoop without the try/catch around processQuery: the error leaves the loop
QueryCatchMissing(h) ==
    /\ pc' = "cleanup"
    /\ outcome' = "error"
    /\ hist' = h

\* chatLoop's catch around processQuery: console.error, then the next prompt
QueryCatch(h) ==
    /\ pc' = "prompt"
    /\ outcome' = "error"
    /\ hist' = h

\* a chatLoop whose transcript outlives the query: the new query is appended
\* to the turns of the queries before it
QuestionRemembers(message) ==
    /\ pc = "prompt"
    /\ IF ToLowerCase(message) = "quit"
       THEN /\ pc' = "cleanup"
            /\ messages' = <<>>
            /\ response' = <<>>
            /\ toolResults' = <<>>
            /\ idx' = 0
            /\ answer' = ""
            /\ outcome' = "none"
            /\ rounds' = 0
            /\ stubN' = 0
            /\ hist' = [hist EXCEPT !.line = message, !.thrown = {},
                                    !.dispatched = <<>>, !.errorFrom = "none"]
       ELSE /\ messages' = Append(messages, StringMessage("user", message))
            /\ pc' = "create"
            /\ response' = <<>>
            /\ toolResults' = <<>>
            /\ idx' = 0
            /\ answer' = ""
            /\ outcome' = "running"
            /\ rounds' = 0
            /\ \E n \in 0..MaxRounds : stubN' = n
            /\ hist' = [hist EXCEPT !.line = message, !.thrown = {},
                                    !.dispatched = <<>>, !.errorFrom = "none"]
    /\ UNCHANGED <<transport, tools, srv>>

\* rl.question resolves with a line: break on quit (the locals of the last
\* processQuery call are long out of scope), otherwise processQuery starts
\* with a fresh transcript holding the query
Question(message) ==
    /\ pc = "prompt"
    /\ IF ToLowerCase(message) = "quit"
       THEN /\ pc' = "cleanup"
            /\ messages' = <<>>
            /\ response' = <<>>
            /\ toolResults' = <<>>
            /\ idx' = 0
            /\ answer' = ""
            /\ outcome' = "none"
            /\ rounds' = 0
            /\ stubN' = 0
            /\ hist' = [hist EXCEPT !.line = message, !.thrown = {},
                                    !.dispatched = <<>>, !.errorFrom = "none"]
       ELSE /\ messages' = <<StringMessage("user", message)>>
            /\ pc' = "create"
            /\ response' = <<>>
            /\ toolResults' = <<>>
            /\ idx' = 0
            /\ answer' = ""
            /\ outcome' = "running"
            /\ rounds' = 0
            /\ \E n \in 0..MaxRounds : stubN' = n
            /\ hist' = [hist EXCEPT !.line = message, !.thrown = {},
                                    !.dispatched = <<>>, !.errorFrom = "none"]
    /\ UNCHANGED <<transport, tools, srv>>

(***************************************************************************)
(* processQuery.                                                           *)
(***************************************************************************)
\* await this.anthropic.messages.create(...) resolves; the stub requests tools
\* in at most stubN responses
ModelResponds ==
    /\ pc = "create"
    /\ \E r \in FinalResponses \cup
                (IF rounds < stubN THEN ToolResponses(rounds + 1) ELSE {}) :
          response' = r
    /\ pc' = "while"
    /\ hist' = [hist EXCEPT !.submitted = TRUE]
    /\ UNCHANGED <<transport, tools, messages, toolResults, idx, answer, outcome,
                   rounds, stubN, srv>>

\* await this.anthropic.messages.create(...) rejects: nothing in processQuery
\* catches it
ModelThrows ==
    /\ pc = "create"
    /\ QueryCatch([hist EXCEPT !.submitted = TRUE, !.errorFrom = "model"])
    /\ UNCHANGED <<transport, tools, messages, response, toolResults, idx, answer,
                   rounds, stubN, srv>>

\* a final text joined without the newline separator
FinalTextNoSeparator(content) ==
    LET texts == SelectSeq(content, IsText)
    IN  Join([i \in 1..Len(texts) |-> texts[i].text], "")

\* the final text: filter the text blocks, map to their text, join by newline
FinalText(content) ==
    LET texts == SelectSeq(content, IsText)
    IN  Join([i \in 1..Len(texts) |-> texts[i].text], "\n")

\* a while loop with an iteration cap of one round
WhileTestCapped ==
    /\ pc = "while"
    /\ IF (\E i \in 1..Len(response) : IsToolUse(response[i])) /\ rounds < 1
       THEN /\ messages' = Append(messages, BlockMessage("assistant", response))
            /\ toolResults' = <<>>
            /\ idx' = 1
            /\ rounds' = rounds + 1
            /\ pc' = "for"
            /\ hist' = [hist EXCEPT !.dispatched = <<>>]
            /\ UNCHANGED <<answer, outcome>>
       ELSE /\ answer' = FinalText(response)
            /\ outcome' = "answered"
            /\ pc' = "prompt"
            /\ UNCHANGED <<messages, toolResults, idx, rounds, hist>>
    /\ UNCHANGED <<transport, tools, response, stubN, srv>>

\* the while test; a true test pushes the assistant turn and starts the for
\* loop, a false one returns the final text to chatLoop, which prints it
WhileTest ==
    /\ pc = "while"
    /\ IF (\E i \in 1..Len(response) : IsToolUse(response[i]))
       THEN /\ messages' = Append(messages, BlockMessage("assistant", response))
            /\ toolResults' = <<>>
            /\ idx' = 1
            /\ rounds' = rounds + 1
            /\ pc' = "for"
            /\ hist' = [hist EXCEPT !.dispatched = <<>>]
            /\ UNCHANGED <<answer, outcome>>
       ELSE /\ answer' = FinalText(response)
            /\ outcome' = "answered"
            /\ pc' = "prompt"
            /\ UNCHANGED <<messages, toolResults, idx, rounds, hist>>
    /\ UNCHANGED <<transport, tools, response, stubN, srv>>

\* for (const content of response.content): a block that is no tool_use
ForSkip ==
    /\ pc = "for"
    /\ idx <= Len(response)
    /\ ~IsToolUse(response[idx])
    /\ idx' = idx + 1
    /\ UNCHANGED <<pc, transport, tools, messages, response, toolResults, answer,
                   outcome, rounds, stubN, hist, srv>>

\* a for loop that issues callTool without awaiting it before the next block
CallToolFanOut ==
    /\ pc = "for"
    /\ idx <= Len(response)
    /\ IsToolUse(response[idx])
    /\ idx' = idx + 1
    /\ hist' = [hist EXCEPT !.dispatched = Append(@, response[idx].id)]
    /\ UNCHANGED <<pc, transport, tools, messages, response, toolResults, answer,
                   outcome, rounds, stubN, srv>>

\* a tool_use block: this.mcp.callTool(...) is issued and awaited
CallTool ==
    /\ pc = "for"
    /\ idx <= Len(response)
    /\ IsToolUse(response[idx])
    /\ pc' = "call"
    /\ hist' = [hist EXCEPT !.dispatched = Append(@, response[idx].id)]
    /\ UNCHANGED <<transport, tools, messages, response, toolResults, idx, answer,
                   outcome, rounds, stubN, srv>>

\* the content of a result block: items joined by newline, or String(content)
NormalizeContent(result) ==
    IF result.isArray
    THEN Join([i \in 1..Len(result.items) |->
                  IF result.items[i].isObject /\ result.items[i].hasText
                  THEN result.items[i].text
                  ELSE StringOfItem(result.items[i])], "\n")
    ELSE StringOfContent(result)

\* callTool resolved: push the result block
CallToolReturns(result) ==
    /\ pc = "call"
    /\ toolResults' = Append(toolResults,
                             ToolResultBlock(response[idx].id, NormalizeContent(result)))
    /\ idx' = idx + 1
    /\ pc' = "for"
    /\ UNCHANGED <<transport, tools, messages, response, answer, outcome, rounds,
                   stubN, hist, srv>>

\* a dispatch without the try/catch: the rejection leaves processQuery
CallToolThrowsUncaught(error) ==
    /\ pc = "call"
    /\ pc' = "prompt"
    /\ outcome' = "error"
    /\ hist' = [hist EXCEPT !.thrown = @ \cup {response[idx].id}, !.errorFrom = "tool"]
    /\ UNCHANGED <<transport, tools, messages, response, toolResults, idx, answer,
                   rounds, stubN, srv>>

\* a catch that logs the error and pushes no result block
CallToolThrowsDropped(error) ==
    /\ pc = "call"
    /\ idx' = idx + 1
    /\ pc' = "for"
    /\ hist' = [hist EXCEPT !.thrown = @ \cup {response[idx].id}]
    /\ UNCHANGED <<transport, tools, messages, response, toolResults, answer, outcome,
                   rounds, stubN, srv>>

\* callTool rejected: the catch pushes a result block describing the error
CallToolThrows(error) ==
    /\ pc = "call"
    /\ toolResults' = Append(toolResults,
                             ToolResultBlock(response[idx].id,
                                             "Error: " \o StringOfError(error)))
    /\ idx' = idx + 1
    /\ pc' = "for"
    /\ hist' = [hist EXCEPT !.thrown = @ \cup {response[idx].id}]
    /\ UNCHANGED <<transport, tools, messages, response, answer, outcome, rounds,
                   stubN, srv>>

\* the for loop is over: push the results as a user turn and resubmit; with
\* no result the while test runs again on the same response
ForDone ==
    /\ pc = "for"
    /\ idx > Len(response)
    /\ IF Len(toolResults) > 0
       THEN /\ messages' = Append(messages, BlockMessage("user", toolResults))
            /\ pc' = "create"
       ELSE /\ pc' = "while"
            /\ UNCHANGED messages
    /\ UNCHANGED <<transport, tools, response, toolResults, idx, answer, outcome,
                   rounds, stubN, hist, srv>>

(***************************************************************************)
(* The tool server: JavaScript values.                                     *)
(***************************************************************************)
\* an optional field or argument: undefined, or a value
Absent == [def |-> FALSE]
Present(v) == [def |-> TRUE, v |-> v]

\* x || fallback, for a string x and for a number x
StrOr(x, fallback) == IF x.def /\ x.v # "" THEN x.v ELSE fallback
NumTruthy(x) == x.def /\ x.v # 0

\* `${x}` of an optional string and of an optional number
StrOf(x) == IF x.def THEN x.v ELSE "undefined"
NumOf(x) == IF x.def THEN ToString(x.v) ELSE "undefined"

\* String.prototype.indexOf, 1-based; 0 when the pattern does not occur
IndexOf(s, pattern) ==
    LET starts == {i \in 1..(Len(s) - Len(pattern) + 1) :
                      SubSeq(s, i, i + Len(pattern) - 1) = pattern}
    IN  IF starts = {} THEN 0 ELSE CHOOSE i \in starts : \A j \in starts : i <= j

\* String.prototype.includes
Includes(s, pattern) == IndexOf(s, pattern) > 0

\* String.prototype.replace with a string pattern: the first occurrence only
Replace(s, pattern, replacement) ==
    LET at == IndexOf(s, pattern)
    IN  IF at = 0 THEN s
        ELSE SubSeq(s, 1, at - 1) \o replacement \o SubSeq(s, at + Len(pattern), Len(s))

\* one character of String.prototype.toUpperCase, over the letters the inputs use
UpperChar(c) ==
    CASE c = "a" -> "A"
      [] c = "c" -> "C"
      [] c = "n" -> "N"
      [] c = "y" -> "Y"
      [] c = "z" -> "Z"
      [] OTHER -> c

RECURSIVE ToUpperCase(_)
ToUpperCase(s) ==
    IF Len(s) = 0 THEN ""
    ELSE UpperChar(SubSeq(s, 1, 1)) \o ToUpperCase(SubSeq(s, 2, Len(s)))

\* Math.round of the rational num / den (den > 0): the nearest integer, halves up
MathRound(num, den) == (2 * num + den) \div (2 * den)

\* (num / den).toFixed(digits) for a value >= 0 and digits in 1..2
ToFixed(num, den, digits) ==
    LET scale == IF digits = 1 THEN 10 ELSE 100
        scaled == MathRound(num * scale, den)
        frac == scaled % scale
    IN  ToString(scaled \div scale) \o "." \o
        (IF digits = 2 /\ frac < 10 THEN "0" ELSE "") \o ToString(frac)

\* n.toFixed(4) of an integer coordinate
ToFixed4(n) == ToString(n) \o ".0000"

\* Array.prototype.slice(0, end) for end >= 0
Slice0(seq, end) == SubSeq(seq, 1, IF end < Len(seq) THEN end ELSE Len(seq))

NWS_API_BASE == "https://api.weather.gov"

(***************************************************************************)
(* The tool server: makeNWSRequest and the envelope.                       *)
(***************************************************************************)
\* the "no data" value of makeNWSRequest
Null == [isNull |-> TRUE]

\* what fetch can do: a reply with an ok status and a JSON body, a reply with
\* another status, a rejected fetch, a body that is not JSON
OkReply(body) == [kind |-> "ok", body |-> body]
FailedReplies == {[kind |-> "status"], [kind |-> "network"], [kind |-> "badjson"]}

\* makeNWSRequest: the parsed body of an ok reply, null for everything else
MakeNWSRequest(reply) ==
    IF reply.kind = "ok" THEN reply.body ELSE Null

\* what a tool call ends with: the handler's envelope, an error raised by the
\* handler, or the argument validation's rejection (the handler never ran)
TextEnvelope(text) ==
    [kind |-> "envelope", content |-> <<[type |-> "text", text |-> text]>>, error |-> ""]
Threw(error) == [kind |-> "threw", content |-> <<>>, error |-> error]
Rejected(error) == [kind |-> "rejected", content |-> <<>>, error |-> error]
NoResult == [kind |-> "none", content |-> <<>>, error |-> ""]

\* a step of a handler: it either awaits another request or ends with a result
Await(at, url, held) == [pc |-> at, url |-> url, held |-> held, result |-> NoResult]
Return(result) == [pc |-> "done", url |-> "", held |-> Null, result |-> result]

(***************************************************************************)
(* The tool server: argument schemas.                                      *)
(***************************************************************************)
\* the arguments of a call, each optional
Args(state, zoneId, latitude, longitude, hours, distance) ==
    [state |-> state, zoneId |-> zoneId, latitude |-> latitude, longitude |-> longitude,
     hours |-> hours, distance |-> distance]

\* z.number().min(lo).max(hi)
NumberInRange(x, lo, hi) == x.def /\ x.v >= lo /\ x.v <= hi

\* z.number().min(lo).max(hi).default(d): the default replaces an absent value
\* before the range is checked
WithDefault(x, d) == IF x.def THEN x ELSE Present(d)

MinHours == 1
MaxHours == 156
DefaultHours == 24
MinDistance == 1
MaxDistance == 500
DefaultDistance == 100
StateLength == 2
MaxStations == 10

\* { state: z.string().length(2) }
AlertsSchema(raw) ==
    IF raw.state.def /\ Len(raw.state.v) = StateLength
    THEN [ok |-> TRUE, args |-> raw]
    ELSE [ok |-> FALSE, args |-> raw]

\* { latitude: z.number().min(-90).max(90), longitude: z.number().min(-180).max(180) }
CoordinateSchema(raw) ==
    IF NumberInRange(raw.latitude, -90, 90) /\ NumberInRange(raw.longitude, -180, 180)
    THEN [ok |-> TRUE, args |-> raw]
    ELSE [ok |-> FALSE, args |-> raw]

\* a schema that clamps hours into its range instead of rejecting
HourlySchemaClamps(raw) ==
    LET h == WithDefault(raw.hours, DefaultHours)
        clamped == IF h.v > MaxHours THEN MaxHours ELSE IF h.v < MinHours THEN MinHours ELSE h.v
    IN  [ok |-> CoordinateSchema(raw).ok, args |-> [raw EXCEPT !.hours = Present(clamped)]]

\* the coordinates and hours: z.number().min(1).max(156).default(24)
HourlySchema(raw) ==
    LET hours == WithDefault(raw.hours, DefaultHours)
    IN  IF CoordinateSchema(raw).ok /\ NumberInRange(hours, MinHours, MaxHours)
        THEN [ok |-> TRUE, args |-> [raw EXCEPT !.hours = hours]]
        ELSE [ok |-> FALSE, args |-> raw]

\* a schema whose distance may be 0
RadarSchemaFromZero(raw) ==
    LET distance == WithDefault(raw.distance, DefaultDistance)
    IN  IF CoordinateSchema(raw).ok /\ NumberInRange(distance, 0, MaxDistance)
        THEN [ok |-> TRUE, args |-> [raw EXCEPT !.distance = distance]]
        ELSE [ok |-> FALSE, args |-> raw]

\* the coordinates and distance: z.number().min(1).max(500).default(100)
RadarSchema(raw) ==
    LET distance == WithDefault(raw.distance, DefaultDistance)
    IN  IF CoordinateSchema(raw).ok /\ NumberInRange(distance, MinDistance, MaxDistance)
        THEN [ok |-> TRUE, args |-> [raw EXCEPT !.distance = distance]]
        ELSE [ok |-> FALSE, args |-> raw]

\* { zoneId: z.string() }
ZoneAlertsSchema(raw) ==
    IF raw.zoneId.def
    THEN [ok |-> TRUE, args |-> raw]
    ELSE [ok |-> FALSE, args |-> raw]

\* the schema registered with each tool
SchemaOf(tool, raw) ==
    CASE tool = "get-alerts" -> AlertsSchema(raw)
      [] tool = "get-forecast" -> CoordinateSchema(raw)
      [] tool = "get-current-conditions" -> CoordinateSchema(raw)
      [] tool = "get-hourly-forecast" -> HourlySchema(raw)
      [] tool = "get-radar-stations" -> RadarSchema(raw)
      [] tool = "get-zone-info" -> CoordinateSchema(raw)
      [] tool = "get-zone-alerts" -> ZoneAlertsSchema(raw)

(***************************************************************************)
(* The tool server: get-alerts and get-zone-alerts.                        *)
(***************************************************************************)
\* formatAlert reads feature.properties.event: a TypeError without properties
FormatAlertThrows(feature) == ~feature.properties.def

\* formatAlert
FormatAlert(feature) ==
    LET props == feature.properties.v
    IN  Join(<< "Event: " \o StrOr(props.event, "Unknown"),
                "Area: " \o StrOr(props.areaDesc, "Unknown"),
                "Severity: " \o StrOr(props.severity, "Unknown"),
                "Status: " \o StrOr(props.status, "Unknown"),
                "Headline: " \o StrOr(props.headline, "No headline"),
                "---" >>, "\n")

\* get-alerts up to its await
GetAlertsStart(args) ==
    Await("alerts", NWS_API_BASE \o "/alerts?area=" \o ToUpperCase(args.state.v), Null)

\* get-alerts after its await
GetAlertsHandler(args, alertsData) ==
    LET stateCode == ToUpperCase(args.state.v)
        features == IF alertsData.isNull \/ ~alertsData.features.def
                    THEN <<>> ELSE alertsData.features.v
    IN  IF alertsData.isNull
        THEN Return(TextEnvelope("Failed to retrieve alerts data"))
        ELSE IF Len(features) = 0
        THEN Return(TextEnvelope("No active alerts for " \o stateCode))
        ELSE IF \E i \in 1..Len(features) : FormatAlertThrows(features[i])
        THEN Return(Threw("TypeError: Cannot read properties of undefined (reading 'event')"))
        ELSE Return(TextEnvelope("Active alerts for " \o stateCode \o ":\n\n" \o
                                 Join([i \in 1..Len(features) |-> FormatAlert(features[i])], "\n")))

\* get-zone-alerts up to its await
GetZoneAlertsStart(args) ==
    Await("zoneAlerts", NWS_API_BASE \o "/alerts?zone=" \o ToUpperCase(args.zoneId.v), Null)

\* get-zone-alerts after its await
GetZoneAlertsHandler(args, alertsData) ==
    LET features == IF alertsData.isNull \/ ~alertsData.features.def
                    THEN <<>> ELSE alertsData.features.v
    IN  IF alertsData.isNull
        THEN Return(TextEnvelope("Failed to retrieve zone alerts"))
        ELSE IF Len(features) = 0
        THEN Return(TextEnvelope("No active alerts for zone " \o args.zoneId.v))
        ELSE IF \E i \in 1..Len(features) : FormatAlertThrows(features[i])
        THEN Return(Threw("TypeError: Cannot read properties of undefined (reading 'event')"))
        ELSE Return(TextEnvelope("Active alerts for zone " \o args.zoneId.v \o ":\n\n" \o
                                 Join([i \in 1..Len(features) |-> FormatAlert(features[i])], "\n")))

(***************************************************************************)
(* The tool server: get-forecast and get-hourly-forecast.                  *)
(***************************************************************************)
\* `${latitude}, ${longitude}`
Coordinates(args) == ToString(args.latitude.v) \o ", " \o ToString(args.longitude.v)

\* `${NWS_API_BASE}/points/${latitude.toFixed(4)},${longitude.toFixed(4)}`
PointsUrl(args) ==
    NWS_API_BASE \o "/points/" \o ToFixed4(args.latitude.v) \o "," \o ToFixed4(args.longitude.v)

\* x.properties?.field of a fetched object
PropertyOf(data, field) ==
    IF data.properties.def THEN data.properties.v[field] ELSE Absent

\* get-forecast up to its first await
GetForecastStart(args) == Await("forecastPoints", PointsUrl(args), Null)

\* a get-forecast that fetches the forecast without checking the URL it got
GetForecastAfterPointsUnchecked(args, pointsData) ==
    IF pointsData.isNull
    THEN Return(TextEnvelope(
             "Failed to retrieve grid point data for coordinates: " \o Coordinates(args)
             \o ". This location may not be supported by the NWS API (only US locations are supported)."))
    ELSE LET forecastUrl == PropertyOf(pointsData, "forecast")
         IN  Await("forecast", IF forecastUrl.def THEN forecastUrl.v ELSE "undefined", Null)

\* get-forecast between its two awaits
GetForecastAfterPoints(args, pointsData) ==
    IF pointsData.isNull
    THEN Return(TextEnvelope(
             "Failed to retrieve grid point data for coordinates: " \o Coordinates(args)
             \o ". This location may not be supported by the NWS API (only US locations are supported)."))
    ELSE LET forecastUrl == PropertyOf(pointsData, "forecast")
         IN  IF ~(forecastUrl.def /\ forecastUrl.v # "")
             THEN Return(TextEnvelope("Failed to get forecast URL from grid point data"))
             ELSE Await("forecast", forecastUrl.v, Null)

\* one period of get-forecast
FormatPeriod(period) ==
    Join(<< StrOr(period.name, "Unknown") \o ":",
            "Temperature: " \o (IF NumTruthy(period.temperature)
                                THEN ToString(period.temperature.v) ELSE "Unknown")
                \o "°" \o StrOr(period.temperatureUnit, "F"),
            "Wind: " \o StrOr(period.windSpeed, "Unknown") \o " " \o StrOr(period.windDirection, ""),
            StrOr(period.shortForecast, "No forecast available"),
            "---" >>, "\n")

\* get-forecast after its second await
GetForecastHandler(args, forecastData) ==
    IF forecastData.isNull
    THEN Return(TextEnvelope("Failed to retrieve forecast data"))
    ELSE LET found == PropertyOf(forecastData, "periods")
             periods == IF found.def THEN found.v ELSE <<>>
         IN  IF Len(periods) = 0
             THEN Return(TextEnvelope("No forecast periods available"))
             ELSE Return(TextEnvelope("Forecast for " \o Coordinates(args) \o ":\n\n" \o
                                      Join([i \in 1..Len(periods) |-> FormatPeriod(periods[i])], "\n")))

\* get-hourly-forecast up to its first await
GetHourlyStart(args) == Await("hourlyPoints", PointsUrl(args), Null)

\* get-hourly-forecast between its two awaits
GetHourlyAfterPoints(args, pointsData) ==
    IF pointsData.isNull
    THEN Return(TextEnvelope(
             "Failed to retrieve grid point data for coordinates: " \o Coordinates(args)))
    ELSE LET forecast == PropertyOf(pointsData, "forecast")
             forecastUrl == IF forecast.def
                            THEN Present(Replace(forecast.v, "/forecast", "/forecast/hourly"))
                            ELSE Absent
         IN  IF ~(forecastUrl.def /\ forecastUrl.v # "")
             THEN Return(TextEnvelope("Failed to get hourly forecast URL"))
             ELSE Await("hourly", forecastUrl.v, Null)

\* one period of get-hourly-forecast
FormatHour(period) ==
    StrOf(period.name) \o ": " \o NumOf(period.temperature) \o "°"
    \o StrOf(period.temperatureUnit) \o " - " \o StrOf(period.shortForecast)

\* get-hourly-forecast after its second await
GetHourlyHandler(args, forecastData) ==
    IF forecastData.isNull
    THEN Return(TextEnvelope("Failed to retrieve hourly forecast data"))
    ELSE LET found == PropertyOf(forecastData, "periods")
             periods == IF found.def THEN Slice0(found.v, args.hours.v) ELSE <<>>
         IN  IF Len(periods) = 0
             THEN Return(TextEnvelope("No hourly forecast periods available"))
             ELSE Return(TextEnvelope(ToString(args.hours.v) \o "-hour forecast for "
                                      \o Coordinates(args) \o ":\n\n" \o
                                      Join([i \in 1..Len(periods) |-> FormatHour(periods[i])], "\n")))

(***************************************************************************)
(* The tool server: get-current-conditions.                                *)
(***************************************************************************)
\* new Date(timestamp).toLocaleString(), for the timestamps the inputs use
ToLocaleString(timestamp) ==
    CASE timestamp = "2024-05-01T12:00:00+00:00" -> "5/1/2024, 12:00:00 PM"
      [] OTHER -> "Invalid Date"

\* props.measurement?.value
ValueOf(measurement) == IF measurement.def THEN measurement.v.value ELSE Absent

\* get-current-conditions up to its first await
GetConditionsStart(args) == Await("stations", PointsUrl(args) \o "/stations", Null)

\* get-current-conditions between its two awaits
GetConditionsAfterStations(args, stationsData) ==
    IF stationsData.isNull \/ ~stationsData.features.def \/ Len(stationsData.features.v) = 0
    THEN Return(TextEnvelope("No weather stations found near this location"))
    ELSE LET station == stationsData.features.v[1]
             stationId == PropertyOf(station, "stationIdentifier")
         IN  IF ~(stationId.def /\ stationId.v # "")
             THEN Return(TextEnvelope("No valid station identifier found"))
             ELSE Await("observation",
                        NWS_API_BASE \o "/stations/" \o stationId.v \o "/observations/latest",
                        station)

\* the lines of the conditions text, with a fallback for the humidity that is missing
ConditionLinesNoHumidityFallback(args, station, props) ==
    LET temp == ValueOf(props.temperature)
        unitCode == IF props.temperature.def THEN props.temperature.v.unitCode ELSE Absent
        tempUnit == IF unitCode.def /\ Includes(unitCode.v, "celsius") THEN "C" ELSE "F"
        humidity == ValueOf(props.relativeHumidity)
        windSpeed == ValueOf(props.windSpeed)
        windDir == ValueOf(props.windDirection)
        pressure == ValueOf(props.barometricPressure)
        visibility == ValueOf(props.visibility)
        stationId == station.properties.v.stationIdentifier.v
    IN  << "Current conditions near " \o Coordinates(args) \o ":",
           "Station: " \o StrOr(station.properties.v.name, stationId),
           "Observed: " \o (IF props.timestamp.def /\ props.timestamp.v # ""
                            THEN ToLocaleString(props.timestamp.v) ELSE "Unknown"),
           "Temperature: " \o (IF NumTruthy(temp) THEN ToString(MathRound(temp.v, 1))
                               ELSE "Unknown") \o "°" \o tempUnit,
           "Humidity: " \o (IF humidity.def THEN ToString(MathRound(humidity.v, 1))
                            ELSE "NaN") \o "%",
           "Wind: " \o (IF NumTruthy(windSpeed)
                        THEN ToString(MathRound(windSpeed.v * 2237, 1000)) ELSE "Unknown")
               \o " mph " \o (IF NumTruthy(windDir)
                              THEN "from " \o ToString(MathRound(windDir.v, 1)) \o "°" ELSE ""),
           "Pressure: " \o (IF NumTruthy(pressure) THEN ToFixed(pressure.v, 100, 2)
                            ELSE "Unknown") \o " mb",
           "Visibility: " \o (IF NumTruthy(visibility) THEN ToFixed(visibility.v, 1609, 1)
                              ELSE "Unknown") \o " miles",
           "Description: " \o StrOr(props.textDescription, "Not available") >>

\* the lines of the conditions text
ConditionLines(args, station, props) ==
    LET temp == ValueOf(props.temperature)
        unitCode == IF props.temperature.def THEN props.temperature.v.unitCode ELSE Absent
        tempUnit == IF unitCode.def /\ Includes(unitCode.v, "celsius") THEN "C" ELSE "F"
        humidity == ValueOf(props.relativeHumidity)
        windSpeed == ValueOf(props.windSpeed)
        windDir == ValueOf(props.windDirection)
        pressure == ValueOf(props.barometricPressure)
        visibility == ValueOf(props.visibility)
        stationId == station.properties.v.stationIdentifier.v
    IN  << "Current conditions near " \o Coordinates(args) \o ":",
           "Station: " \o StrOr(station.properties.v.name, stationId),
           "Observed: " \o (IF props.timestamp.def /\ props.timestamp.v # ""
                            THEN ToLocaleString(props.timestamp.v) ELSE "Unknown"),
           "Temperature: " \o (IF NumTruthy(temp) THEN ToString(MathRound(temp.v, 1))
                               ELSE "Unknown") \o "°" \o tempUnit,
           "Humidity: " \o (IF NumTruthy(humidity) THEN ToString(MathRound(humidity.v, 1))
                            ELSE "Unknown") \o "%",
           "Wind: " \o (IF NumTruthy(windSpeed)
                        THEN ToString(MathRound(windSpeed.v * 2237, 1000)) ELSE "Unknown")
               \o " mph " \o (IF NumTruthy(windDir)
                              THEN "from " \o ToString(MathRound(windDir.v, 1)) \o "°" ELSE ""),
           "Pressure: " \o (IF NumTruthy(pressure) THEN ToFixed(pressure.v, 100, 2)
                            ELSE "Unknown") \o " mb",
           "Visibility: " \o (IF NumTruthy(visibility) THEN ToFixed(visibility.v, 1609, 1)
                              ELSE "Unknown") \o " miles",
           "Description: " \o StrOr(props.textDescription, "Not available") >>

\* get-current-conditions after its second await; reading a field of a missing
\* properties object raises a TypeError, which the handler's catch turns into text
GetConditionsHandler(args, station, observationData) ==
    IF observationData.isNull
    THEN Return(TextEnvelope("Failed to retrieve current conditions"))
    ELSE IF ~observationData.properties.def
    THEN Return(TextEnvelope("Error retrieving current conditions: TypeError: "
                             \o "Cannot read properties of undefined (reading 'temperature')"))
    ELSE Return(TextEnvelope(
             Join(ConditionLines(args, station, observationData.properties.v), "\n")))

(***************************************************************************)
(* The tool server: get-radar-stations and get-zone-info.                  *)
(***************************************************************************)
\* the squared planar distance, in degrees, the filter and the sort compute
SquaredDegrees(latitude, longitude, stationLat, stationLon) ==
    (latitude - stationLat) * (latitude - stationLat)
    + (longitude - stationLon) * (longitude - stationLon)

\* distanceMiles <= distance, with distanceMiles = sqrt(d2) * 111 * 0.621371, in
\* integers: (111 * 0.621371)^2 = 4757.1617..., and more than 52 squared
\* degrees are more than 500 miles
WithinMiles(d2, distance) ==
    /\ d2 <= 52
    /\ d2 * 4757162 <= distance * distance * 1000

\* the filter callback of get-radar-stations
IsNearby(args, station) ==
    LET stationLat == PropertyOf(station, "latitude")
        stationLon == PropertyOf(station, "longitude")
    IN  IF ~NumTruthy(stationLat) \/ ~NumTruthy(stationLon) THEN FALSE
        ELSE WithinMiles(SquaredDegrees(args.latitude.v, args.longitude.v,
                                        stationLat.v, stationLon.v),
                         args.distance.v)

\* the key the sort callback compares: the distance to the station, 0 standing
\* for a missing coordinate
SortKey(args, station) ==
    LET lat == PropertyOf(station, "latitude")
        lon == PropertyOf(station, "longitude")
    IN  SquaredDegrees(args.latitude.v, args.longitude.v,
                       IF NumTruthy(lat) THEN lat.v ELSE 0,
                       IF NumTruthy(lon) THEN lon.v ELSE 0)

\* Array.prototype.sort by ascending key; the sort is stable
SortByDistance(args, stations) ==
    LET Insert(sorted, station) ==
            LET before == {i \in 1..Len(sorted) :
                              SortKey(args, sorted[i]) > SortKey(args, station)}
                at == IF before = {} THEN Len(sorted) + 1
                      ELSE CHOOSE i \in before : \A j \in before : i <= j
            IN  SubSeq(sorted, 1, at - 1) \o <<station>> \o SubSeq(sorted, at, Len(sorted))
        upTo[k \in 0..Len(stations)] ==
            IF k = 0 THEN <<>> ELSE Insert(upTo[k - 1], stations[k])
    IN  upTo[Len(stations)]

\* one line of the station list
FormatStation(station) ==
    StrOf(PropertyOf(station, "id")) \o ": "
    \o StrOf(PropertyOf(station, "name")) \o " ("
    \o StrOf(PropertyOf(station, "stationType")) \o ")"

\* get-radar-stations up to its await
GetRadarStart(args) == Await("radar", NWS_API_BASE \o "/radar/stations", Null)

\* get-radar-stations after its await
GetRadarHandler(args, radarData) ==
    IF radarData.isNull \/ ~radarData.features.def
    THEN Return(TextEnvelope("Failed to retrieve radar stations"))
    ELSE LET nearbyStations ==
                 Slice0(SortByDistance(args,
                            SelectSeq(radarData.features.v, LAMBDA st : IsNearby(args, st))),
                        MaxStations)
             where == ToString(args.distance.v) \o " miles of " \o Coordinates(args)
         IN  IF Len(nearbyStations) = 0
             THEN Return(TextEnvelope("No radar stations found within " \o where))
             ELSE Return(TextEnvelope("Radar stations within " \o where \o ":\n\n" \o
                                      Join([i \in 1..Len(nearbyStations) |-> FormatStation(nearbyStations[i])], "\n")))

\* get-zone-info up to its await
GetZoneInfoStart(args) == Await("zoneInfo", PointsUrl(args), Null)

\* get-zone-info after its await
GetZoneInfoHandler(args, pointsData) ==
    IF pointsData.isNull
    THEN Return(TextEnvelope("Failed to retrieve zone information"))
    ELSE LET props == IF pointsData.properties.def THEN pointsData.properties.v
                      ELSE [forecastZone |-> Absent, county |-> Absent,
                            fireWeatherZone |-> Absent, gridId |-> Absent,
                            gridX |-> Absent, gridY |-> Absent]
         IN  Return(TextEnvelope(Join(
                 << "Zone information for " \o Coordinates(args) \o ":",
                    "Forecast Zone: " \o StrOr(props.forecastZone, "Unknown"),
                    "County: " \o StrOr(props.county, "Unknown"),
                    "Fire Weather Zone: " \o StrOr(props.fireWeatherZone, "Unknown"),
                    "Grid ID: " \o StrOr(props.gridId, "Unknown"),
                    "Grid X,Y: " \o (IF NumTruthy(props.gridX) THEN ToString(props.gridX.v)
                                     ELSE "Unknown") \o ", "
                        \o (IF NumTruthy(props.gridY) THEN ToString(props.gridY.v)
                            ELSE "Unknown") >>, "\n")))

(***************************************************************************)
(* The tool server: the calls it receives and what the weather API answers.*)
(***************************************************************************)
NoArgs == Args(Absent, Absent, Absent, Absent, Absent, Absent)
StateArgs(state) == Args(state, Absent, Absent, Absent, Absent, Absent)
ZoneArgs(zoneId) == Args(Absent, zoneId, Absent, Absent, Absent, Absent)
PointArgs(lat, lon) == Args(Absent, Absent, Present(lat), Present(lon), Absent, Absent)
HourlyArgs(lat, lon, hours) == Args(Absent, Absent, Present(lat), Present(lon), hours, Absent)
RadarArgs(lat, lon, distance) == Args(Absent, Absent, Present(lat), Present(lon), Absent, distance)

\* the tool calls a client can send: <<tool name, arguments>>
Calls ==
    {<<"get-alerts", StateArgs(st)>> : st \in {Present("CA"), Present("ny"), Present("CAL"), Absent}}
    \cup {<<"get-zone-alerts", ZoneArgs(z)>> : z \in {Present("caz006"), Absent}}
    \cup {<<tool, PointArgs(c[1], c[2])>> :
             tool \in {"get-forecast", "get-current-conditions", "get-zone-info"},
             c \in {<<40, -75>>, <<0, 0>>, <<91, 0>>}}
    \cup {<<"get-hourly-forecast", HourlyArgs(40, -75, h)>> :
             h \in {Absent, Present(0), Present(1), Present(2), Present(MaxHours),
                    Present(MaxHours + 1), Present(1000)}}
    \cup {<<"get-hourly-forecast", HourlyArgs(40, 181, Present(MaxHours))>>}
    \cup {<<"get-radar-stations", RadarArgs(c[1], c[2], d)>> :
             c \in {<<40, -75>>, <<1, 1>>},
             d \in {Absent, Present(0), Present(1), Present(68), Present(69),
                    Present(MaxDistance), Present(MaxDistance + 1)}}

Body(fields) == [isNull |-> FALSE] @@ fields

\* alert features: complete, with empty properties, without properties
Feature(props) == [properties |-> props]
AlertProps(event, headline) ==
    [event |-> event, areaDesc |-> Present("Coastal"), severity |-> Present("Severe"),
     status |-> Present("Actual"), headline |-> headline]
FullAlert == Feature(Present(AlertProps(Present("Flood Warning"), Present("Flooding expected"))))
BareAlert == Feature(Present([event |-> Absent, areaDesc |-> Absent, severity |-> Absent,
                              status |-> Absent, headline |-> Absent]))
AlertsBodies ==
    { Body([features |-> f]) :
        f \in {Absent, Present(<<>>), Present(<<FullAlert>>), Present(<<BareAlert, FullAlert>>),
               Present(<<FullAlert, Feature(Absent)>>)} }

\* the points resource
PointProps(forecast) ==
    [forecast |-> forecast, forecastZone |-> Present("https://api.weather.gov/zones/forecast/PAZ071"),
     county |-> Absent, fireWeatherZone |-> Present(""), gridId |-> Present("PHI"),
     gridX |-> Present(49), gridY |-> Present(0)]
PointsBodies ==
    { Body([properties |-> p]) :
        p \in {Absent, Present(PointProps(Absent)), Present(PointProps(Present(""))),
               Present(PointProps(Present("https://api.weather.gov/gridpoints/PHI/49,75/forecast")))} }

\* forecast periods: the i-th hour, and a period without any field
Period(i) ==
    [name |-> Present("h" \o ToString(i)), temperature |-> Present(60 + (i % 3)),
     temperatureUnit |-> Present("F"), windSpeed |-> Present("5 mph"),
     windDirection |-> Present("NW"), shortForecast |-> Present("Sunny")]
BarePeriod ==
    [name |-> Absent, temperature |-> Present(0), temperatureUnit |-> Absent,
     windSpeed |-> Absent, windDirection |-> Absent, shortForecast |-> Absent]
Periods(n) == [i \in 1..n |-> Period(i)]
ForecastBodies ==
    { Body([properties |-> p]) :
        p \in {Absent, Present([periods |-> Absent])}
              \cup {Present([periods |-> Present(ps)]) :
                       ps \in {<<>>, <<BarePeriod>>, Periods(3), Periods(MaxHours),
                               Periods(MaxHours + 1)}} }

\* observation stations
Station(props) == [properties |-> props]
StationsBodies ==
    { Body([features |-> f]) :
        f \in {Absent, Present(<<>>), Present(<<Station(Absent)>>),
               Present(<<Station(Present([stationIdentifier |-> Present(""), name |-> Absent]))>>),
               Present(<<Station(Present([stationIdentifier |-> Present("KPHL"), name |-> Absent]))>>),
               Present(<<Station(Present([stationIdentifier |-> Present("KPHL"),
                                          name |-> Present("Philadelphia")])),
                         Station(Absent)>>)} }

\* observations: every field present or missing
Measure(value) == Present([value |-> value, unitCode |-> Absent])
Temperatures ==
    {Absent, Present([value |-> Absent, unitCode |-> Present("wmoUnit:degC")]),
     Present([value |-> Present(21), unitCode |-> Present("unit:celsius")]),
     Present([value |-> Present(0), unitCode |-> Absent])}
ObservationBodies ==
    {Body([properties |-> Absent])} \cup
    { Body([properties |-> Present(
              [timestamp |-> ts, temperature |-> t, relativeHumidity |-> h, windSpeed |-> ws,
               windDirection |-> wd, barometricPressure |-> bp, visibility |-> vis,
               textDescription |-> td])]) :
        ts \in {Absent, Present("2024-05-01T12:00:00+00:00")},
        t \in Temperatures,
        h \in {Absent, Measure(Present(55))},
        ws \in {Absent, Measure(Present(5))},
        wd \in {Absent, Measure(Present(180))},
        bp \in {Absent, Measure(Present(101325))},
        vis \in {Absent, Measure(Present(16090))},
        td \in {Absent, Present("Cloudy")} }

\* radar stations
Radar(id, lat, lon) ==
    Station(Present([id |-> Present(id), name |-> Present("Radar " \o id),
                     stationType |-> Present("WSR-88D"), latitude |-> lat, longitude |-> lon]))
RadarBodies ==
    { Body([features |-> f]) :
        f \in {Absent, Present(<<>>),
               Present(<<Radar("KBGM", Present(42), Present(-76)),
                         Radar("KDIX", Present(40), Present(-74)),
                         Radar("KNOLAT", Absent, Present(-75)),
                         Radar("KEQ", Present(0), Present(1)),
                         Station(Absent)>>),
               Present(<<Radar("KHERE", Present(40), Present(-75))>>),
               Present([i \in 1..(MaxStations + 1) |->
                           Radar("K" \o ToString(i), Present(40 + (i % 3)), Present(-75))])} }

\* the replies the request awaited at a handler position can get
RepliesAt(at) ==
    FailedReplies \cup
    { OkReply(body) :
        body \in CASE at \in {"alerts", "zoneAlerts"} -> AlertsBodies
                   [] at \in {"forecastPoints", "hourlyPoints", "zoneInfo"} -> PointsBodies
                   [] at \in {"forecast", "hourly"} -> ForecastBodies
                   [] at = "stations" -> StationsBodies
                   [] at = "observation" -> ObservationBodies
                   [] at = "radar" -> RadarBodies
                   [] OTHER -> {} }

(***************************************************************************)
(* The tool server: one call at a time.                                    *)
(***************************************************************************)
IdleServer ==
    [pc |-> "idle", tool |-> "", raw |-> NoArgs, args |-> NoArgs, requests |-> <<>>,
     replies |-> <<>>, held |-> Null, result |-> NoResult]

\* the handler registered under a tool name, up to its first await
StartOf(tool, args) ==
    CASE tool = "get-alerts" -> GetAlertsStart(args)
      [] tool = "get-forecast" -> GetForecastStart(args)
      [] tool = "get-current-conditions" -> GetConditionsStart(args)
      [] tool = "get-hourly-forecast" -> GetHourlyStart(args)
      [] tool = "get-radar-stations" -> GetRadarStart(args)
      [] tool = "get-zone-info" -> GetZoneInfoStart(args)
      [] tool = "get-zone-alerts" -> GetZoneAlertsStart(args)

\* a tool call arrives: the arguments are validated against the tool's schema;
\* invalid arguments are rejected without running the handler, valid ones run
\* it up to its first request
Invoke(tool, raw) ==
    /\ srv.pc = "idle"
    /\ LET parsed == SchemaOf(tool, raw)
       IN  IF ~parsed.ok
           THEN srv' = [srv EXCEPT !.pc = "done", !.tool = tool, !.raw = raw,
                                   !.result = Rejected("Invalid arguments for tool " \o tool)]
           ELSE LET step == StartOf(tool, parsed.args)
                IN  srv' = [srv EXCEPT !.pc = step.pc, !.tool = tool, !.raw = raw,
                                       !.args = parsed.args, !.requests = <<step.url>>]
    /\ UNCHANGED clientVars

\* the awaited request settled with reply and the handler ran its next step
Continue(reply, step) ==
    /\ srv' = [srv EXCEPT !.pc = step.pc,
                          !.requests = IF step.pc = "done" THEN @ ELSE Append(@, step.url),
                          !.replies = Append(@, reply),
                          !.held = step.held,
                          !.result = step.result]
    /\ UNCHANGED clientVars

GetAlerts(reply) ==
    /\ srv.pc = "alerts"
    /\ Continue(reply, GetAlertsHandler(srv.args, MakeNWSRequest(reply)))

GetZoneAlerts(reply) ==
    /\ srv.pc = "zoneAlerts"
    /\ Continue(reply, GetZoneAlertsHandler(srv.args, MakeNWSRequest(reply)))

GetForecastPoints(reply) ==
    /\ srv.pc = "forecastPoints"
    /\ Continue(reply, GetForecastAfterPoints(srv.args, MakeNWSRequest(reply)))

GetForecast(reply) ==
    /\ srv.pc = "forecast"
    /\ Continue(reply, GetForecastHandler(srv.args, MakeNWSRequest(reply)))

GetHourlyPoints(reply) ==
    /\ srv.pc = "hourlyPoints"
    /\ Continue(reply, GetHourlyAfterPoints(srv.args, MakeNWSRequest(reply)))

GetHourly(reply) ==
    /\ srv.pc = "hourly"
    /\ Continue(reply, GetHourlyHandler(srv.args, MakeNWSRequest(reply)))

GetConditionsStations(reply) ==
    /\ srv.pc = "stations"
    /\ Continue(reply, GetConditionsAfterStations(srv.args, MakeNWSRequest(reply)))

GetConditions(reply) ==
    /\ srv.pc = "observation"
    /\ Continue(reply, GetConditionsHandler(srv.args, srv.held, MakeNWSRequest(reply)))

GetRadar(reply) ==
    /\ srv.pc = "radar"
    /\ Continue(reply, GetRadarHandler(srv.args, MakeNWSRequest(reply)))

GetZoneInfo(reply) ==
    /\ srv.pc = "zoneInfo"
    /\ Continue(reply, GetZoneInfoHandler(srv.args, MakeNWSRequest(reply)))

\* the result is sent and the server waits for the next call; nothing is kept
Respond ==
    /\ srv.pc = "done"
    /\ srv' = IdleServer
    /\ UNCHANGED clientVars

ServerNext ==
    \/ \E call \in Calls : Invoke(call[1], call[2])
    \/ \E reply \in RepliesAt("alerts") : GetAlerts(reply)
    \/ \E reply \in RepliesAt("zoneAlerts") : GetZoneAlerts(reply)
    \/ \E reply \in RepliesAt("forecastPoints") : GetForecastPoints(reply)
    \/ \E reply \in RepliesAt("forecast") : GetForecast(reply)
    \/ \E reply \in RepliesAt("hourlyPoints") : GetHourlyPoints(reply)
    \/ \E reply \in RepliesAt("hourly") : GetHourly(reply)
    \/ \E reply \in RepliesAt("stations") : GetConditionsStations(reply)
    \/ \E reply \in RepliesAt("observation") : GetConditions(reply)
    \/ \E reply \in RepliesAt("radar") : GetRadar(reply)
    \/ \E reply \in RepliesAt("zoneInfo") : GetZoneInfo(reply)
    \/ Respond

(***************************************************************************)
(* The client program.                                                     *)
(***************************************************************************)
Init ==
    /\ ClientInit
    /\ srv = IdleServer

Next ==
    \/ \E locator \in Locators : Main(locator)
    \/ ConnectTransport
    \/ ListTools
    \/ \E message \in Lines : Question(message)
    \/ ModelResponds
    \/ ModelThrows
    \/ WhileTest
    \/ ForSkip
    \/ CallTool
    \/ \E result \in CallToolResults : CallToolReturns(result)
    \/ \E error \in CallToolErrors : CallToolThrows(error)
    \/ ForDone
    \/ Cleanup

Spec == Init /\ [][Next]_vars

ServerSpec == Init /\ [][ServerNext]_vars

\* the steps of one processQuery call: every awaited call settles and the
\* event loop runs each continuation
QueryStep ==
    \/ ModelResponds
    \/ ModelThrows
    \/ WhileTest
    \/ ForSkip
    \/ CallTool
    \/ \E result \in CallToolResults : CallToolReturns(result)
    \/ \E error \in CallToolErrors : CallToolThrows(error)
    \/ ForDone

FairSpec == Init /\ [][Next]_vars /\ WF_vars(QueryStep)

(***************************************************************************)
(* Properties of the client.                                               *)
(***************************************************************************)
\* the identifiers of the tool_use blocks of a content array, in order
RequestIds(blocks) ==
    LET uses == SelectSeq(blocks, LAMBDA b : b.type = "tool_use")
    IN  [i \in 1..Len(uses) |-> uses[i].id]

\* C1: every assistant turn of the transcript is followed by a user turn that
\* holds one tool_result per tool_use of the assistant turn, the i-th result
\* carrying the i-th request's identifier; only the turn whose requests are
\* still being dispatched has no such turn after it yet.
C1_ResultsMatchRequests ==
    \A k \in 1..Len(messages) :
        messages[k].role = "assistant" =>
            IF k = Len(messages)
            THEN pc \in {"for", "call"}
            ELSE LET ids == RequestIds(messages[k].blocks)
                     reply == messages[k + 1]
                 IN  /\ reply.role = "user"
                     /\ reply.isArray
                     /\ Len(reply.blocks) = Len(ids)
                     /\ \A i \in 1..Len(ids) :
                            /\ reply.blocks[i].type = "tool_result"
                            /\ reply.blocks[i].tool_use_id = ids[i]

\* C1 witness: a two-request turn answered by two results, one of them from a
\* dispatch that threw, ready to be resubmitted
C1_Witness ==
    /\ pc = "create"
    /\ Len(messages) = 3
    /\ Len(messages[3].blocks) = 2
    /\ Cardinality(hist.thrown) = 1

\* C2: a dispatch that throws does not end the query: in that very step a
\* result block with the request's identifier and an "Error: ..." text is
\* pushed and the for loop goes on; the only error that ends a query comes
\* from the model API; and when the transcript is resubmitted every request of
\* the last assistant turn has been dispatched and answered.
C2_DispatchFailureContained ==
    /\ [][hist'.thrown \ hist.thrown # {} =>
            /\ pc' = "for"
            /\ outcome' = "running"
            /\ idx' = idx + 1
            /\ Len(toolResults') = Len(toolResults) + 1
            /\ SubSeq(toolResults', 1, Len(toolResults)) = toolResults
            /\ LET block == toolResults'[Len(toolResults')]
               IN  /\ block.tool_use_id = response[idx].id
                   /\ Len(block.content) > 7
                   /\ SubSeq(block.content, 1, 7) = "Error: "]_vars
    /\ [](outcome = "error" => hist.errorFrom = "model")
    /\ []((pc = "create" /\ rounds > 0) =>
            /\ hist.dispatched = RequestIds(messages[Len(messages) - 1].blocks)
            /\ messages[Len(messages)].role = "user"
            /\ Len(messages[Len(messages)].blocks) = Len(hist.dispatched))

\* C2 witness: the first of two dispatches threw, the second was still made,
\* and the transcript is being resubmitted
C2_Witness ==
    /\ pc = "create"
    /\ Len(hist.dispatched) = 2
    /\ hist.dispatched[1] \in hist.thrown
    /\ hist.dispatched[2] \notin hist.thrown

\* C3: with a model that requests tools in at most stubN responses the loop
\* runs at most stubN rounds and the call ends; it returns an answer only when
\* the latest response holds no tool_use block; and a response that holds one
\* always starts another round, whatever the number of rounds so far.
C3_LoopTerminates ==
    /\ [](rounds <= stubN)
    /\ [](outcome = "answered" => \A i \in 1..Len(response) : response[i].type # "tool_use")
    /\ [][(pc = "while" /\ \E i \in 1..Len(response) : response[i].type = "tool_use")
            => (pc' = "for" /\ rounds' = rounds + 1)]_vars
    /\ (outcome = "running" ~> outcome # "running")

\* C3 witness: an answer returned after the largest number of tool rounds
C3_Witness ==
    /\ outcome = "answered"
    /\ rounds = MaxRounds
    /\ stubN = MaxRounds

\* the texts of a content array's text blocks, newline-separated, built left to right
SpecAnswer(content) ==
    LET texts == SelectSeq(content, LAMBDA b : b.type = "text")
        upTo[k \in 0..Len(texts)] ==
            IF k = 0 THEN ""
            ELSE IF k = 1 THEN texts[1].text
            ELSE upTo[k - 1] \o "\n" \o texts[k].text
    IN  upTo[Len(texts)]

\* C4: the answer of a query is the text of the text blocks of the final
\* response, in order, separated by newlines (the empty string when it has
\* none); the final response holds no tool_use block, so no text of an
\* earlier, tool-requesting response is part of it.
C4_AnswerIsFinalText ==
    outcome = "answered" =>
        /\ answer = SpecAnswer(response)
        /\ \A i \in 1..Len(response) : response[i].type # "tool_use"
        /\ (\A i \in 1..Len(response) : response[i].type # "text") => answer = ""

\* C4 witness: after a tool round whose response also carried text, a final
\* response with two text blocks was answered
C4_Witness ==
    /\ outcome = "answered"
    /\ rounds = 1
    /\ Len(messages[2].blocks) = 4
    /\ Len(response) = 2
    /\ answer = "sunny\nwindy"

\* the lines that end the session
QuitLines == {"quit", "QUIT", "Quit"}

\* C5: a query that ended in an error leaves the chat loop at its prompt, and
\* once the chat loop was entered the program is past it only after a line
\* that is "quit" in some letter case.
C5_SessionSurvivesErrors ==
    /\ outcome = "error" => pc = "prompt"
    /\ (hist.chatEntered /\ pc \in {"cleanup", "exit"}) => hist.line \in QuitLines

\* C5 witness: an error of the model API ended a query and the loop prompts again
C5_Witness ==
    /\ outcome = "error"
    /\ pc = "prompt"
    /\ hist.errorFrom = "model"
    /\ hist.line = "quit it"

\* the locators with a supported extension
SupportedLocators == {"server.js", "weather.py"}

\* C6: after a startup failure (unsupported extension, failed connect, failed
\* tool listing) the program is in main's finally block or has exited, the
\* chat loop was never entered, nothing was sent to the model and no tool is
\* held; the chat loop runs only with the complete list the server declared.
C6_StartupFailureFatal ==
    /\ hist.connectFailed =>
          /\ pc \in {"cleanup", "exit"}
          /\ ~hist.chatEntered
          /\ ~hist.submitted
          /\ tools = <<>>
    /\ (pc # "main" /\ hist.locator \notin SupportedLocators \cup {""}) =>
          /\ hist.connectFailed
          /\ transport = FALSE
    /\ hist.submitted => hist.chatEntered
    /\ hist.chatEntered =>
          /\ ~hist.connectFailed
          /\ Len(tools) = Len(hist.listed)
          /\ \A i \in 1..Len(tools) : tools[i].name = hist.listed[i].name

\* C6 witness: the handshake failed after the transport was created and the
\* program exited
C6_Witness ==
    /\ hist.connectFailed
    /\ transport = TRUE
    /\ pc = "exit"

(***************************************************************************)
(* Properties of the tool server.                                          *)
(***************************************************************************)
\* the lines of a text
SplitLines(text) ==
    LET breaks == {i \in 1..Len(text) : SubSeq(text, i, i) = "\n"}
        Break(k) == IF k = 0 THEN 0
                    ELSE IF k > Cardinality(breaks) THEN Len(text) + 1
                    ELSE CHOOSE i \in breaks : Cardinality({j \in breaks : j < i}) = k - 1
    IN  [k \in 1..(Cardinality(breaks) + 1) |-> SubSeq(text, Break(k - 1) + 1, Break(k) - 1)]

\* a call that ran its handler has ended
HandlerEnded == srv.pc = "done" /\ srv.result.kind # "rejected"

\* C7: every call whose handler ran ends with an envelope of exactly one text
\* item, whatever the upstream requests answered; no handler raises an error.
C7_UniformEnvelope ==
    HandlerEnded =>
        /\ srv.result.kind = "envelope"
        /\ Len(srv.result.content) = 1
        /\ srv.result.content[1].type = "text"

\* how a get-hourly-forecast call with the given arguments ends when its
\* requests get the given replies, in order
HourlyRun(raw, replies) ==
    LET parsed == HourlySchema(raw)
        afterPoints == GetHourlyAfterPoints(parsed.args, MakeNWSRequest(replies[1]))
        afterForecast == GetHourlyHandler(parsed.args, MakeNWSRequest(replies[2]))
    IN  IF ~parsed.ok THEN Rejected("Invalid arguments for tool get-hourly-forecast")
        ELSE IF afterPoints.pc = "done" THEN afterPoints.result
        ELSE afterForecast.result

HourlyCall == srv.pc = "done" /\ srv.tool = "get-hourly-forecast"

\* C8 as stated: a call with hours = 1000 ends as the call with hours = 156
\* ended, given the same coordinates and the same upstream replies.
C8_ClampedLikeMax ==
    (HourlyCall /\ srv.raw.hours = Present(MaxHours) /\ srv.result.kind # "rejected") =>
        HourlyRun([srv.raw EXCEPT !.hours = Present(1000)], srv.replies) = srv.result

\* the number of lines of the period list of an hourly forecast text
HourLines(text) == Len(SplitLines(text)) - 2

\* C8 amended: hours above 156 are rejected by the schema: the handler does not
\* run and no upstream request is made; hours = 156 with valid coordinates is
\* accepted, and a forecast of n > 0 periods is then listed up to its 156th.
C8_MaxValidatedNotClamped ==
    /\ (HourlyCall /\ srv.raw.hours.def /\ srv.raw.hours.v > 156) =>
          /\ srv.result.kind = "rejected"
          /\ srv.requests = <<>>
          /\ srv.replies = <<>>
    /\ (HourlyCall /\ srv.raw.hours = Present(156) /\ srv.raw.longitude.v <= 180) =>
          /\ srv.result.kind = "envelope"
          /\ (Len(srv.replies) = 2 /\ srv.replies[2].kind = "ok"
              /\ srv.replies[2].body.properties.def
              /\ srv.replies[2].body.properties.v.periods.def
              /\ Len(srv.replies[2].body.properties.v.periods.v) > 0) =>
                LET n == Len(srv.replies[2].body.properties.v.periods.v)
                    text == srv.result.content[1].text
                IN  /\ SplitLines(text)[1] = "156-hour forecast for 40, -75:"
                    /\ HourLines(text) = IF n < 156 THEN n ELSE 156

\* C8 witness: a call with hours = 1000 was rejected
C8_Witness ==
    /\ HourlyCall
    /\ srv.raw.hours = Present(1000)
    /\ srv.result.kind = "rejected"

RadarCall == srv.pc = "done" /\ srv.tool = "get-radar-stations"

\* C9 as stated: a call with a radius of 0 miles runs the handler and ends with
\* the "No radar stations found within ..." text.
C9_ZeroRadiusMessage ==
    (RadarCall /\ srv.raw.distance = Present(0)) =>
        /\ srv.result.kind = "envelope"
        /\ Includes(srv.result.content[1].text, "No radar stations found within 0 miles")

\* a station of the fetched catalog lies at the query coordinate
StationAtQuery ==
    \E i \in 1..Len(srv.replies[1].body.features.v) :
        LET st == srv.replies[1].body.features.v[i]
        IN  /\ st.properties.def
            /\ st.properties.v.latitude = srv.raw.latitude
            /\ st.properties.v.longitude = srv.raw.longitude

\* C9 amended: a radius of 0 miles is rejected by the schema: the handler does
\* not run and the catalog is not fetched; with the smallest accepted radius,
\* 1 mile, and a catalog with no station at the query coordinate (on the
\* model's whole-degree grid: none within a mile) the call ends with the
\* "No radar stations found within 1 miles of ..." text.
C9_ZeroRadiusRejected ==
    /\ (RadarCall /\ srv.raw.distance = Present(0)) =>
          /\ srv.result.kind = "rejected"
          /\ srv.requests = <<>>
          /\ srv.replies = <<>>
    /\ (RadarCall /\ srv.raw.distance = Present(1) /\ Len(srv.replies) = 1
        /\ srv.replies[1].kind = "ok" /\ srv.replies[1].body.features.def
        /\ ~StationAtQuery) =>
          /\ srv.result.kind = "envelope"
          /\ Len(srv.result.content) = 1
          /\ srv.result.content[1].text =
                 "No radar stations found within 1 miles of "
                 \o ToString(srv.raw.latitude.v) \o ", " \o ToString(srv.raw.longitude.v)

\* C9 witness: a call with a radius of 0 miles was rejected
C9_Witness ==
    /\ RadarCall
    /\ srv.raw.distance = Present(0)
    /\ srv.result.kind = "rejected"

\* a get-current-conditions call ended after an observation was fetched
ObservationFetched ==
    /\ srv.pc = "done"
    /\ srv.tool = "get-current-conditions"
    /\ Len(srv.replies) = 2
    /\ srv.replies[2].kind = "ok"

\* the fetched observation's properties, and whether a value is missing in them
Observed == srv.replies[2].body.properties.v
NoValue(measurement) == ~measurement.def \/ ~measurement.v.value.def

\* the part of the wind line after " mph "
WindDirectionPart(line) ==
    LET at == IndexOf(line, " mph ")
    IN  IF at = 0 THEN "" ELSE SubSeq(line, at + 5, Len(line))

\* C10 as stated: after an observation (with its properties object) was
\* fetched the call ends with a text in which every missing field reads
\* "Unknown".
C10_MissingFieldsUnknown ==
    (ObservationFetched /\ srv.replies[2].body.properties.def) =>
        LET text == srv.result.content[1].text
            lines == SplitLines(text)
        IN  /\ srv.result.kind = "envelope"
            /\ Len(lines) = 9
            /\ ~Observed.timestamp.def => Includes(lines[3], "Unknown")
            /\ NoValue(Observed.temperature) => Includes(lines[4], "Unknown")
            /\ NoValue(Observed.relativeHumidity) => Includes(lines[5], "Unknown")
            /\ NoValue(Observed.windSpeed) => Includes(lines[6], "Wind: Unknown")
            /\ NoValue(Observed.windDirection) =>
                   Includes(WindDirectionPart(lines[6]), "Unknown")
            /\ NoValue(Observed.barometricPressure) => Includes(lines[7], "Unknown")
            /\ NoValue(Observed.visibility) => Includes(lines[8], "Unknown")
            /\ ~Observed.textDescription.def => Includes(lines[9], "Unknown")

\* C10 amended: after an observation with a properties object was fetched the
\* call ends with an envelope of nine lines in which a missing timestamp,
\* temperature, humidity, wind speed, pressure or visibility reads "Unknown",
\* a missing wind direction leaves the wind line ending after "mph " and a
\* missing description reads "Not available".
C10_MissingFieldsRendered ==
    (ObservationFetched /\ srv.replies[2].body.properties.def) =>
        LET text == srv.result.content[1].text
            lines == SplitLines(text)
        IN  /\ srv.result.kind = "envelope"
            /\ Len(srv.result.content) = 1
            /\ Len(lines) = 9
            /\ ~Observed.timestamp.def => lines[3] = "Observed: Unknown"
            /\ NoValue(Observed.temperature) =>
                   lines[4] \in {"Temperature: Unknown°F", "Temperature: Unknown°C"}
            /\ NoValue(Observed.relativeHumidity) => lines[5] = "Humidity: Unknown%"
            /\ NoValue(Observed.windSpeed) => SubSeq(lines[6], 1, 18) = "Wind: Unknown mph "
            /\ NoValue(Observed.windDirection) => WindDirectionPart(lines[6]) = ""
            /\ NoValue(Observed.barometricPressure) => lines[7] = "Pressure: Unknown mb"
            /\ NoValue(Observed.visibility) => lines[8] = "Visibility: Unknown miles"
            /\ ~Observed.textDescription.def => lines[9] = "Description: Not available"

\* C10 witness: an observation without any of the eight fields was rendered
C10_Witness ==
    /\ ObservationFetched
    /\ srv.replies[2].body.properties.def
    /\ ~Observed.timestamp.def
    /\ ~Observed.temperature.def
    /\ ~Observed.relativeHumidity.def
    /\ ~Observed.windSpeed.def
    /\ ~Observed.windDirection.def
    /\ ~Observed.barometricPressure.def
    /\ ~Observed.visibility.def
    /\ ~Observed.textDescription.def
    /\ srv.result.kind = "envelope"

(***************************************************************************)
(* Properties of the client: dispatch order and the transcript.            *)
(***************************************************************************)
\* the identifiers the result blocks of an array carry, in order
ResultIds(blocks) == [i \in 1..Len(blocks) |-> blocks[i].tool_use_id]

\* while the requests of a response are dispatched: the calls started so far
\* are the first requests of the response in array order, the results pushed
\* so far answer the first of these in the same order, every request before
\* the position of the for loop is answered, and a call is outstanding exactly
\* while callTool is awaited, one at most
DispatchInOrder ==
    pc \in {"for", "call"} =>
        LET ids == RequestIds(response)
            started == hist.dispatched
            settled == ResultIds(toolResults)
        IN  /\ Len(started) <= Len(ids)
            /\ started = SubSeq(ids, 1, Len(started))
            /\ Len(settled) <= Len(started)
            /\ settled = SubSeq(started, 1, Len(settled))
            /\ settled = RequestIds(SubSeq(response, 1, idx - 1))
            /\ Len(started) - Len(settled) = (IF pc = "call" THEN 1 ELSE 0)

\* when the results are resubmitted, the user turn holds them in the order of
\* the requests of the assistant turn before it
ResultsInRequestOrder ==
    (pc = "create" /\ Len(messages) > 1) =>
        /\ ResultIds(messages[Len(messages)].blocks) = hist.dispatched
        /\ hist.dispatched = RequestIds(messages[Len(messages) - 1].blocks)

\* C11: the tool_use blocks of one response are dispatched one after the
\* other in array order: a call starts only when every call started before it
\* has returned or thrown, at most one call is outstanding at any time, and
\* the result blocks reach the transcript in the order of their requests.
C11_SequentialDispatch ==
    /\ [](DispatchInOrder /\ ResultsInRequestOrder)
    /\ [][Len(hist'.dispatched) > Len(hist.dispatched) =>
             /\ Len(toolResults) = Len(hist.dispatched)
             /\ hist'.dispatched = Append(hist.dispatched, response[idx].id)
             /\ pc' = "call"]_vars

\* C11 witness: the second request of a response is outstanding and the first
\* one has its result
C11_Witness ==
    /\ pc = "call"
    /\ Len(hist.dispatched) = 2
    /\ Len(toolResults) = 1
    /\ toolResults[1].tool_use_id = hist.dispatched[1]

\* the transcript handed to anthropic.messages.create: the query typed at the
\* prompt as a user turn with string content, then one (assistant, user) pair
\* per round of the while loop of this call, the k-th assistant turn being the
\* k-th response of this call and the user turn after it holding tool results
SubmittedTranscript ==
    pc = "create" =>
        /\ Len(messages) = 2 * rounds + 1
        /\ messages[1] = StringMessage("user", hist.line)
        /\ \A k \in 1..Len(messages) :
               messages[k].role = (IF k % 2 = 1 THEN "user" ELSE "assistant")
        /\ \A k \in 1..rounds :
               /\ messages[2 * k].isArray
               /\ messages[2 * k].blocks \in ToolResponses(k)
               /\ messages[2 * k + 1].isArray
               /\ Len(messages[2 * k + 1].blocks) > 0
               /\ \A i \in 1..Len(messages[2 * k + 1].blocks) :
                      messages[2 * k + 1].blocks[i].type = "tool_result"

\* C12: at every submission of one processQuery call the transcript is the
\* user turn of the current query followed by the (assistant, tool-result)
\* pairs of this call; roles alternate, first and last turn are user turns,
\* no turn of an earlier query is there, and while the call runs turns are
\* only appended.
C12_TranscriptPerQuery ==
    /\ []SubmittedTranscript
    /\ [][(outcome = "running" /\ outcome' = "running") =>
             /\ Len(messages') >= Len(messages)
             /\ SubSeq(messages', 1, Len(messages)) = messages]_vars

\* C12 witness: the transcript of a query is submitted for the third time,
\* two pairs after the query
C12_Witness ==
    /\ pc = "create"
    /\ outcome = "running"
    /\ rounds = 2
    /\ Len(messages) = 5
    /\ messages[1].text = hist.line
    /\ messages[5].role = "user"

(***************************************************************************)
(* Properties of the tool server: the two steps of get-forecast.           *)
(***************************************************************************)
\* a get-forecast call whose arguments were accepted
ForecastCall == srv.tool = "get-forecast" /\ srv.result.kind # "rejected"

\* the forecast URL the points lookup of the call yielded, "" for none
YieldedUrl ==
    IF Len(srv.replies) = 0 \/ srv.replies[1].kind # "ok" THEN ""
    ELSE LET p == srv.replies[1].body.properties
         IN  IF p.def /\ p.v.forecast.def THEN p.v.forecast.v ELSE ""

\* the periods the forecast fetch of the call yielded
YieldedPeriods ==
    LET p == srv.replies[2].body.properties
    IN  IF p.def /\ p.v.periods.def THEN p.v.periods.v ELSE <<>>

\* where a finished get-forecast call stopped
ForecastStep ==
    IF srv.replies[1].kind # "ok" THEN "points"
    ELSE IF YieldedUrl = "" THEN "url"
    ELSE IF srv.replies[2].kind # "ok" THEN "forecast"
    ELSE IF Len(YieldedPeriods) = 0 THEN "periods"
    ELSE "listed"

\* how the text of each step begins
ForecastSteps == {"points", "url", "forecast", "periods", "listed"}
StepText(step) ==
    CASE step = "points" -> "Failed to retrieve grid point data"
      [] step = "url" -> "Failed to get forecast URL from grid point data"
      [] step = "forecast" -> "Failed to retrieve forecast data"
      [] step = "periods" -> "No forecast periods available"
      [] step = "listed" -> "Forecast for "

StartsWith(text, prefix) ==
    Len(text) >= Len(prefix) /\ SubSeq(text, 1, Len(prefix)) = prefix

\* C13: a get-forecast call whose points lookup succeeded without a forecast
\* URL ends with the text 'Failed to get forecast URL from grid point data'
\* after one upstream request; a failed points lookup, a failed forecast
\* fetch and an empty period list end with a text of their own, different
\* from each other's; and a second request is made only after a points lookup
\* that yielded a URL, and goes to that URL.
C13_ForecastSteps ==
    ForecastCall =>
        /\ Len(srv.requests) <= 2
        /\ Len(srv.requests) = 2 =>
               /\ YieldedUrl # ""
               /\ srv.requests[2] = YieldedUrl
        /\ (Len(srv.replies) >= 1 /\ YieldedUrl = "") =>
               /\ srv.pc = "done"
               /\ Len(srv.requests) = 1
        /\ srv.pc = "done" =>
               /\ srv.result.kind = "envelope"
               /\ StartsWith(srv.result.content[1].text, StepText(ForecastStep))
               /\ \A other \in ForecastSteps \ {ForecastStep} :
                      ~StartsWith(srv.result.content[1].text, StepText(other))
               /\ ForecastStep = "url" =>
                      srv.result = TextEnvelope("Failed to get forecast URL from grid point data")
               /\ ForecastStep \in {"forecast", "periods"} =>
                      srv.result = TextEnvelope(StepText(ForecastStep))

\* C13 witness: the points lookup for (0, 0) answered without a forecast URL
\* and the call ended with the URL message after that single request
C13_Witness ==
    /\ ForecastCall
    /\ srv.raw = PointArgs(0, 0)
    /\ srv.pc = "done"
    /\ srv.replies[1].kind = "ok"
    /\ srv.replies[1].body.properties.def
    /\ YieldedUrl = ""
    /\ Len(srv.requests) = 1
    /\ srv.result.content[1].text = "Failed to get forecast URL from grid point data"

====
